---- MODULE Spec2Model ----
(***************************************************************************)
(* A model of conda_kapsel/env_spec.py: the EnvSpec class (construction,   *)
(* the effective "inherited" properties, the cached content hash, diff and *)
(* to_json), the environment.yml loader and the out-of-sync check.         *)
(*                                                                         *)
(* Python values are modelled as follows.                                  *)
(*   - a str is the sequence of its characters (so "" is << >>);           *)
(*   - a tuple/list of str is a sequence of such sequences;                *)
(*   - a value whose Python type matters (a YAML node, an EnvSpec name     *)
(*     taken from a YAML node) is a tagged record [t |-> kind, ...];       *)
(*   - an EnvSpec object is an index into the sequence heap; the reference *)
(*     None is the index 0.                                                *)
(***************************************************************************)
EXTENDS Integers, Sequences, FiniteSets, TLC

VARIABLES heap, fs, ret

vars == <<heap, fs, ret>>

(***************************************************************************)
(* Bounds of the model.                                                    *)
(***************************************************************************)
\* the number of EnvSpec objects that are constructed
MaxSpecs == 3
\* the number of list entries (conda, pip and channel entries together)
\* held by all constructed EnvSpec objects
MaxItems == 3
\* the number of EnvSpec objects where objects are compared with each other
\* (by hash, by diff)
MaxPeers == 2
\* the length of the 'dependencies' and of the 'channels' list of a file
MaxYaml == 2

(***************************************************************************)
(* Python values.                                                          *)
(***************************************************************************)
None == [t |-> "none"]
Str(s) == [t |-> "str", v |-> s]
Num(n) == [t |-> "int", v |-> n]
List(xs) == [t |-> "list", v |-> xs]
\* an exception that leaves the function
Raise(exc) == [t |-> "raise", exc |-> exc]
\* a key that a dict does not hold
Absent == [t |-> "absent"]

is_string(x) == x.t = "str"

\* Python truthiness (bool(x)) of a value
Truthy(x) ==
    CASE x.t = "none" -> FALSE
      [] x.t = "str" -> Len(x.v) > 0
      [] x.t = "int" -> x.v # 0
      [] x.t = "list" -> Len(x.v) > 0
      [] OTHER -> TRUE

Range(s) == {s[i] : i \in 1..Len(s)}

RECURSIVE SeqsUpTo(_, _)
\* the sequences over S of length at most n
SeqsUpTo(S, n) ==
    IF n = 0 THEN {<<>>}
    ELSE LET shorter == SeqsUpTo(S, n - 1)
         IN  shorter \cup {Append(s, x) : s \in {q \in shorter : Len(q) = n - 1}, x \in S}

RECURSIVE Flatten(_)
\* the concatenation of the strings of a list
Flatten(xs) == IF xs = <<>> THEN <<>> ELSE Head(xs) \o Flatten(Tail(xs))

(***************************************************************************)
(* The inputs the operations are applied to.                               *)
(***************************************************************************)
Names == {Str(<<"x">>), Str(<<"y">>)}
Packages == {<<"a">>, <<"b">>}
PipPackages == {<<"b">>}
Channels == {<<"c">>}

(***************************************************************************)
(* _combine_keeping_last_duplicate                                         *)
(***************************************************************************)
default_key(item) == item

CombineDroppingNothing(items1, items2) == items1 \o items2

CombineKeepingFirst(items1, items2) ==
    items1 \o SelectSeq(items2, LAMBDA item : item \notin Range(items1))

_combine_keeping_last_duplicate(items1, items2) ==
    LET items2_keys == {default_key(items2[k]) : k \in 1..Len(items2)}
        combined == SelectSeq(items1, LAMBDA item : default_key(item) \notin items2_keys)
    IN  combined \o items2

(***************************************************************************)
(* EnvSpec                                                                 *)
(***************************************************************************)
Attrs == {"conda_packages", "channels", "pip_packages"}

\* the private attribute behind a public one: '_' + public_attr
Own(spec, public_attr) ==
    CASE public_attr = "conda_packages" -> spec._conda_packages
      [] public_attr = "channels" -> spec._channels
      [] public_attr = "pip_packages" -> spec._pip_packages

RECURSIVE _get_inherited(_, _, _)
\* the properties conda_packages, channels and pip_packages of the object i
_get_inherited(h, i, public_attr) ==
    IF h[i]._inherit_from # 0
    THEN _combine_keeping_last_duplicate(
             _get_inherited(h, h[i]._inherit_from, public_attr), Own(h[i], public_attr))
    ELSE Own(h[i], public_attr)

conda_packages(h, i) == _get_inherited(h, i, "conda_packages")
channels(h, i) == _get_inherited(h, i, "channels")
pip_packages(h, i) == _get_inherited(h, i, "pip_packages")

\* the object __init__ builds from its arguments
NewEnvSpec(name, conda, chans, pip, description, inherit_from_name, inherit_from) ==
    [_name |-> name,
     _conda_packages |-> conda,
     _channels |-> chans,
     _pip_packages |-> pip,
     _description |-> description,
     _channels_and_packages_hash |-> None,
     _inherit_from_name |-> inherit_from_name,
     _inherit_from |-> inherit_from]

InitAssertNameOnly(h, inherit_from_name, inherit_from) ==
    inherit_from = 0 \/ inherit_from_name # None

\* the assertion that ends __init__
InitAssert(h, inherit_from_name, inherit_from) ==
    inherit_from = 0 \/
        (inherit_from_name # None /\ inherit_from_name = h[inherit_from]._name)

Entries(spec) ==
    Len(spec._conda_packages) + Len(spec._channels) + Len(spec._pip_packages)

RECURSIVE TotalEntries(_)
TotalEntries(h) == IF h = <<>> THEN 0 ELSE Entries(Head(h)) + TotalEntries(Tail(h))

\* EnvSpec(name, conda_packages, channels, pip_packages, description,
\*         inherit_from_name, inherit_from)
Construct(name, conda, chans, pip, description, inherit_from_name, inherit_from) ==
    /\ IF InitAssert(heap, inherit_from_name, inherit_from)
       THEN /\ heap' = Append(heap, NewEnvSpec(name, conda, chans, pip, description,
                                               inherit_from_name, inherit_from))
            /\ ret' = [op |-> "__init__", self |-> Len(heap) + 1, value |-> None]
       ELSE /\ heap' = heap
            /\ ret' = [op |-> "__init__", self |-> 0,
                       value |-> [t |-> "raise", exc |-> "AssertionError",
                                  inherit_from_name |-> inherit_from_name,
                                  inherit_from |-> inherit_from]]
    /\ UNCHANGED fs

\* a read of the three properties conda_packages, channels, pip_packages
ReadLists(i) ==
    /\ i \in 1..Len(heap)
    /\ ret' = [op |-> "lists", self |-> i,
               value |-> [conda_packages |-> conda_packages(heap, i),
                          channels |-> channels(heap, i),
                          pip_packages |-> pip_packages(heap, i)]]
    /\ UNCHANGED <<heap, fs>>

\* hashlib.sha1 fed the bytes `bytes`, then hexdigest(): the digest is modelled
\* as a value that determines, and is determined by, the bytes it was fed
Sha1(bytes) == [t |-> "sha1", of |-> bytes]

HashChannelsFirst(h, i) ==
    Sha1(Flatten(channels(h, i)) \o Flatten(conda_packages(h, i))
             \o Flatten(pip_packages(h, i)))

\* the digest channels_and_packages_hash computes when nothing is cached:
\* m.update(p.encode("utf-8")) for the conda packages, the pip packages and
\* the channels in turn (the characters of the model are ASCII, one byte each)
ComputeHash(h, i) ==
    Sha1(Flatten(conda_packages(h, i)) \o Flatten(pip_packages(h, i))
             \o Flatten(channels(h, i)))

\* the heap after a read of channels_and_packages_hash on the object i
HashCached(h, i) ==
    IF h[i]._channels_and_packages_hash = None
    THEN [h EXCEPT ![i]._channels_and_packages_hash = ComputeHash(h, i)]
    ELSE h

\* a read of the property channels_and_packages_hash
ReadHash(i) ==
    /\ i \in 1..Len(heap)
    /\ heap' = HashCached(heap, i)
    /\ ret' = [op |-> "channels_and_packages_hash", self |-> i,
               value |-> heap'[i]._channels_and_packages_hash]
    /\ UNCHANGED fs

RECURSIVE Join(_, _)
\* sep.join(lines)
Join(sep, lines) ==
    IF lines = <<>> THEN <<>>
    ELSE IF Len(lines) = 1 THEN lines[1]
    ELSE lines[1] \o sep \o Join(sep, Tail(lines))

\* the lines Differ._dump gives the elements of xs: '%s %s' % (tag, x)
Dump(tag, xs) == [k \in 1..Len(xs) |-> <<tag, " ">> \o xs[k]]

\* SequenceMatcher.find_longest_match over the whole of a and b, no junk:
\* <<i, j, k>> with a[i..i+k-1] = b[j..j+k-1] and k the largest there is,
\* then i the smallest, then j the smallest; k is 0 when nothing matches
LongestMatch(a, b) ==
    LET blocks == {m \in (1..Len(a)) \X (1..Len(b)) \X (1..Len(a)) :
                       /\ m[1] + m[3] - 1 <= Len(a)
                       /\ m[2] + m[3] - 1 <= Len(b)
                       /\ SubSeq(a, m[1], m[1] + m[3] - 1) = SubSeq(b, m[2], m[2] + m[3] - 1)}
        Better(m, n) ==
            \/ m[3] > n[3]
            \/ m[3] = n[3] /\ m[1] < n[1]
            \/ m[3] = n[3] /\ m[1] = n[1] /\ m[2] < n[2]
    IN  IF blocks = {} THEN <<1, 1, 0>>
        ELSE CHOOSE m \in blocks : \A n \in blocks \ {m} : Better(m, n)

RECURSIVE NdiffChangesOnly(_, _)
NdiffChangesOnly(a, b) ==
    IF a = <<>> /\ b = <<>> THEN <<>>
    ELSE LET m == LongestMatch(a, b)
         IN  IF m[3] = 0
             THEN IF a # <<>> /\ b # <<>>
                  THEN IF Len(b) < Len(a) THEN Dump("+", b) \o Dump("-", a)
                       ELSE Dump("-", a) \o Dump("+", b)
                  ELSE IF a # <<>> THEN Dump("-", a) ELSE Dump("+", b)
             ELSE NdiffChangesOnly(SubSeq(a, 1, m[1] - 1), SubSeq(b, 1, m[2] - 1))
                      \o NdiffChangesOnly(SubSeq(a, m[1] + m[3], Len(a)),
                                          SubSeq(b, m[2] + m[3], Len(b)))

RECURSIVE ndiff(_, _)
\* list(difflib.ndiff(a, b)): the matching blocks are found longest first,
\* then to the left and to the right of each; a block is dumped with the tag
\* ' ', elements only in a with '-', elements only in b with '+'. Where
\* both sides of a gap hold elements Differ._fancy_replace looks for a pair
\* of similar strings (ratio above 0.75) to mark within the line; no two
\* different strings of Packages, PipPackages and Channels are that
\* similar, and it does what Differ._plain_replace does: the shorter side
\* is dumped second.
ndiff(a, b) ==
    IF a = <<>> /\ b = <<>> THEN <<>>
    ELSE LET m == LongestMatch(a, b)
         IN  IF m[3] = 0
             THEN IF a # <<>> /\ b # <<>>
                  THEN IF Len(b) < Len(a) THEN Dump("+", b) \o Dump("-", a)
                       ELSE Dump("-", a) \o Dump("+", b)
                  ELSE IF a # <<>> THEN Dump("-", a) ELSE Dump("+", b)
             ELSE ndiff(SubSeq(a, 1, m[1] - 1), SubSeq(b, 1, m[2] - 1))
                      \o Dump(" ", SubSeq(a, m[1], m[1] + m[3] - 1))
                      \o ndiff(SubSeq(a, m[1] + m[3], Len(a)), SubSeq(b, m[2] + m[3], Len(b)))

Indented(lines) == [k \in 1..Len(lines) |-> <<" ", " ", " ", " ">> \o lines[k]]

\* the string self.diff_from(old) returns, self the object i and old the object j
diff_from(h, i, j) ==
    LET channels_diff == ndiff(channels(h, j), channels(h, i))
        conda_diff == ndiff(conda_packages(h, j), conda_packages(h, i))
        pip_diff == ndiff(pip_packages(h, j), pip_packages(h, i))
        pip_section == IF pip_diff # <<>>
                       THEN <<<<" ", " ", "p", "i", "p", ":">>>> \o Indented(pip_diff)
                       ELSE pip_diff
        channels_section ==
            IF channels_diff # <<>>
            THEN <<<<" ", " ", "c", "h", "a", "n", "n", "e", "l", "s", ":">>>>
                     \o Indented(channels_diff)
            ELSE channels_diff
    IN  Join(<<"\n">>, channels_section \o conda_diff \o pip_section)

DiffFrom(i, j) ==
    /\ i \in 1..Len(heap)
    /\ j \in 1..Len(heap)
    /\ ret' = [op |-> "diff_from", self |-> i, old |-> j, value |-> diff_from(heap, i, j)]
    /\ UNCHANGED <<heap, fs>>

\* the dict to_json returns; a key the dict does not hold is Absent
to_json(h, i) ==
    LET conda == conda_packages(h, i)
        pip == pip_packages(h, i)
        packages == [k \in 1..Len(conda) |-> Str(conda[k])]
                        \o (IF pip # <<>> THEN <<[t |-> "dict", pip |-> pip]>> ELSE <<>>)
    IN  [packages |-> packages,
         channels |-> channels(h, i),
         inherit_from |-> IF h[i]._inherit_from_name # None
                          THEN h[i]._inherit_from_name ELSE Absent]

ToJson(i) ==
    /\ i \in 1..Len(heap)
    /\ ret' = [op |-> "to_json", self |-> i, value |-> to_json(heap, i)]
    /\ UNCHANGED <<heap, fs>>

(***************************************************************************)
(* _load_environment_yml                                                   *)
(*                                                                         *)
(* fs is the file the functions are given: its path, and what reading and  *)
(* parsing it gives, which is IOError (codecs.open or read failed),        *)
(* YAMLError (_load_string failed) or the parsed value. A parsed mapping   *)
(* is a record of t = "dict" with a field for every key the code asks      *)
(* for, which is Absent when the mapping does not hold the key.            *)
(***************************************************************************)
\* os.path.basename(p): p[p.rfind('/') + 1:]
basename(p) ==
    LET slashes == {k \in 1..Len(p) : p[k] = "/"}
        i == IF slashes = {} THEN 0 ELSE CHOOSE k \in slashes : \A l \in slashes : l <= k
    IN  SubSeq(p, i + 1, Len(p))

\* os.path.basename(value) for any value: a TypeError for what is no str
\* (Python 3; Python 2 raises an AttributeError there)
basename_of(value) ==
    IF value.t = "str" THEN Str(basename(value.v)) ELSE Raise("TypeError")

\* sub in s, for two str
Contains(s, sub) ==
    \E k \in 1..(Len(s) - Len(sub) + 1) : SubSeq(s, k, k + Len(sub) - 1) = sub

\* the exception that ends lines 189-209 when the parsed value is no mapping:
\* 'name' in yaml and 'prefix' in yaml are a TypeError for a number and for
\* None; for a list or a str that holds the key so is the subscript
\* yaml['name'] or yaml['prefix']; what comes through reaches yaml.get
NotAMapping(yaml) ==
    LET holds(key) ==
            CASE yaml.t = "list" -> \E k \in 1..Len(yaml.v) : yaml.v[k] = Str(key)
              [] yaml.t = "str" -> Contains(yaml.v, key)
              [] OTHER -> FALSE
    IN  IF yaml.t \in {"int", "none"} THEN Raise("TypeError")
        ELSE IF holds(<<"n", "a", "m", "e">>) \/ holds(<<"p", "r", "e", "f", "i", "x">>)
        THEN Raise("TypeError")
        ELSE Raise("AttributeError")

LoadNamePrefixFirst(yaml, filename) ==
    LET name1 == IF yaml.prefix # Absent /\ Truthy(yaml.prefix)
                 THEN basename_of(yaml.prefix)
                 ELSE IF yaml.name # Absent THEN yaml.name ELSE None
    IN  IF name1.t # "raise" /\ ~Truthy(name1) THEN Str(basename(filename)) ELSE name1

\* lines 188-196: the name, or the exception os.path.basename raises
LoadName(yaml, filename) ==
    LET name0 == IF yaml.name # Absent THEN yaml.name ELSE None
        name1 == IF ~Truthy(name0)
                 THEN IF yaml.prefix # Absent /\ Truthy(yaml.prefix)
                      THEN basename_of(yaml.prefix)
                      ELSE name0
                 ELSE name0
    IN  IF name1.t # "raise" /\ ~Truthy(name1) THEN Str(basename(filename)) ELSE name1

\* yaml.get(key, []) made [] when it is no list
RawList(node) == IF node # Absent /\ node.t = "list" THEN node.v ELSE <<>>

RECURSIVE StringsLoop(_)
\* for x in raw: if is_string(x): append
StringsLoop(raw) ==
    IF raw = <<>> THEN <<>>
    ELSE (IF is_string(Head(raw)) THEN <<Head(raw).v>> ELSE <<>>) \o StringsLoop(Tail(raw))

RECURSIVE CondaLoop(_)
\* lines 216-218: the conda packages the loop over raw_dependencies collects
CondaLoop(raw) ==
    IF raw = <<>> THEN <<>>
    ELSE (IF is_string(Head(raw)) THEN <<Head(raw).v>> ELSE <<>>) \o CondaLoop(Tail(raw))

RECURSIVE PipLoopLastMapping(_)
PipLoopLastMapping(raw) ==
    IF raw = <<>> THEN <<>>
    ELSE LET dep == Head(raw)
             rest == PipLoopLastMapping(Tail(raw))
         IN  IF rest = <<>> /\ ~is_string(dep) /\ dep.t = "dict" /\ dep.pip # Absent
                 /\ dep.pip.t = "list"
             THEN StringsLoop(dep.pip.v)
             ELSE rest

RECURSIVE PipLoop(_)
\* lines 216-222: the pip packages the loop over raw_dependencies collects
PipLoop(raw) ==
    IF raw = <<>> THEN <<>>
    ELSE LET dep == Head(raw)
         IN  (IF ~is_string(dep) /\ dep.t = "dict" /\ dep.pip # Absent /\ dep.pip.t = "list"
              THEN StringsLoop(dep.pip.v)
              ELSE <<>>) \o PipLoop(Tail(raw))

\* what _load_environment_yml(filename) returns or raises, the file being file
_load_environment_yml(file) ==
    LET yaml == file.content
    IN  IF yaml.t \in {"IOError", "YAMLError"} THEN None
        ELSE IF yaml.t # "dict" THEN NotAMapping(yaml)
        ELSE LET name == LoadName(yaml, file.path)
                 raw_dependencies == RawList(yaml.dependencies)
                 raw_channels == RawList(yaml.channels)
             IN  IF name.t = "raise" THEN name
                 ELSE [t |-> "EnvSpec",
                       obj |-> NewEnvSpec(name, CondaLoop(raw_dependencies),
                                          StringsLoop(raw_channels),
                                          PipLoop(raw_dependencies), None, None, 0)]

Load ==
    /\ ret' = [op |-> "_load_environment_yml", self |-> 0,
               value |-> _load_environment_yml(fs)]
    /\ UNCHANGED <<heap, fs>>

RECURSIVE FindByNameOnly(_, _, _)
FindByNameOnly(h, spec, k) ==
    IF k > Len(h) THEN [heap |-> h, value |-> [t |-> "EnvSpec", obj |-> spec]]
    ELSE IF h[k]._name = spec._name THEN [heap |-> h, value |-> None]
    ELSE FindByNameOnly(h, spec, k + 1)

\* lines 238-243: the loop over project_specs from its k-th element on, the
\* known specs being the objects of h in order and spec the loaded one; the
\* hashes are read, and cached, only of a known spec of the same name
RECURSIVE Scan(_, _, _)
Scan(h, spec, k) ==
    IF k > Len(h) THEN [heap |-> h, value |-> [t |-> "EnvSpec", obj |-> spec]]
    ELSE IF h[k]._name = spec._name
         THEN LET h2 == HashCached(h, k)
                  spec2 == HashCached(<<spec>>, 1)[1]
              IN  IF h2[k]._channels_and_packages_hash = spec2._channels_and_packages_hash
                  THEN [heap |-> h2, value |-> None]
                  ELSE Scan(h2, spec2, k + 1)
         ELSE Scan(h, spec, k + 1)

\* what _find_out_of_sync_environment_yml_spec(project_specs, filename)
\* returns or raises and the heap it leaves
_find_out_of_sync_environment_yml_spec(h, file) ==
    LET spec == _load_environment_yml(file)
    IN  IF spec = None THEN [heap |-> h, value |-> None]
        ELSE IF spec.t = "raise" THEN [heap |-> h, value |-> spec]
        ELSE Scan(h, spec.obj, 1)

FindOutOfSync ==
    LET found == _find_out_of_sync_environment_yml_spec(heap, fs)
    IN  /\ heap' = found.heap
        /\ ret' = [op |-> "_find_out_of_sync_environment_yml_spec", self |-> 0,
                   value |-> found.value]
        /\ UNCHANGED fs

NoFiles == <<>>
NoReturn == [op |-> "none", self |-> 0, value |-> None]

Init ==
    /\ heap = <<>>
    /\ fs = NoFiles
    /\ ret = NoReturn

\* the room left for list entries
Room == MaxItems - TotalEntries(heap)

\* the objects a new one can inherit from: the first object is a root, and
\* every later one joins the tree under an object that exists
Parents == IF heap = <<>> THEN {0} ELSE 1..Len(heap)

\* one tree of objects that all carry the name x, with lists of every shape
ConstructMerged ==
    /\ Len(heap) < MaxSpecs
    /\ \E inherit_from_name \in {None, Str(<<"x">>)}, inherit_from \in Parents,
          conda \in SeqsUpTo(Packages, Room) :
         \E chans \in SeqsUpTo(Channels, Room - Len(conda)) :
           \E pip \in SeqsUpTo(PipPackages, Room - Len(conda) - Len(chans)) :
             Construct(Str(<<"x">>), conda, chans, pip, None, inherit_from_name, inherit_from)

ReadAnyLists == \E i \in 1..Len(heap) : ReadLists(i)

AnyToJson == \E i \in 1..Len(heap) : ToJson(i)

Next ==
    \/ ConstructMerged
    \/ ReadAnyLists
    \/ AnyToJson

Spec == Init /\ [][Next]_vars

\* objects of either name, linked or not, by either name or by none; the
\* lists play no part in the link and are left empty
ConstructNamed ==
    /\ Len(heap) < MaxSpecs
    /\ \E name \in Names, inherit_from_name \in Names \cup {None},
          inherit_from \in 0..Len(heap) :
         Construct(name, <<>>, <<>>, <<>>, None, inherit_from_name, inherit_from)

ReadAnyHash == \E i \in 1..Len(heap) : ReadHash(i)

NextNamed ==
    \/ ConstructNamed
    \/ ReadAnyHash

SpecNamed == Init /\ [][NextNamed]_vars

\* package strings of which one is the concatenation of two others
HashPackages == Packages \cup {<<"a", "b">>}

\* roots and children whose lists make equal and different byte streams
ConstructHashed ==
    /\ Len(heap) < MaxPeers
    /\ \E link \in {<<None, 0>>} \cup {<<Str(<<"x">>), j>> : j \in 1..Len(heap)},
          conda \in SeqsUpTo(HashPackages, Room) :
         \E chans \in SeqsUpTo(Channels, Room - Len(conda)) :
           \E pip \in SeqsUpTo(PipPackages, Room - Len(conda) - Len(chans)) :
             Construct(Str(<<"x">>), conda, chans, pip, None, link[1], link[2])

NextHashed ==
    \/ ConstructHashed
    \/ ReadAnyHash

SpecHashed == Init /\ [][NextHashed]_vars

\* roots and children to compare with each other and with themselves
ConstructDiffed ==
    /\ Len(heap) < MaxPeers
    /\ \E link \in {<<None, 0>>} \cup {<<Str(<<"x">>), j>> : j \in 1..Len(heap)},
          conda \in SeqsUpTo(Packages, Room) :
         \E chans \in SeqsUpTo(Channels, Room - Len(conda)) :
           \E pip \in SeqsUpTo(PipPackages, Room - Len(conda) - Len(chans)) :
             Construct(Str(<<"x">>), conda, chans, pip, None, link[1], link[2])

AnyDiffFrom == \E i \in 1..Len(heap), j \in 1..Len(heap) : DiffFrom(i, j)

NextDiffed ==
    \/ ConstructDiffed
    \/ AnyDiffFrom

SpecDiffed == Init /\ [][NextDiffed]_vars

\* the nodes of the files that are loaded
NameNodes == {Absent, Str(<<>>), Str(<<"x">>), Num(5)}
PrefixNodes == {Absent, Str(<<>>), Str(<<"/", "y">>), Str(<<"y", "/">>), Num(5)}
PipNodes ==
    {Absent, Str(<<"b">>), List(<<Str(<<"b">>)>>), List(<<Num(1), Str(<<"a">>)>>)}
DependencyNodes ==
    {Str(<<"a">>), Str(<<"b">>), Num(1)} \cup {[t |-> "dict", pip |-> pip] : pip \in PipNodes}
ChannelNodes == {Str(<<"c">>), Num(1)}

Mappings ==
    {[t |-> "dict", name |-> name, prefix |-> prefix, dependencies |-> dependencies,
      channels |-> chans] :
        name \in NameNodes, prefix \in PrefixNodes,
        dependencies \in {Absent, Str(<<"a">>)}
                             \cup {List(xs) : xs \in SeqsUpTo(DependencyNodes, MaxYaml)},
        chans \in {Absent, Str(<<"c">>)}
                      \cup {List(xs) : xs \in SeqsUpTo(ChannelNodes, MaxYaml)}}

\* the parsed values that are no mapping
Scalars == {None, Num(5), Str(<<"a">>), List(<<Str(<<"a">>)>>)}

Failures == {[t |-> "IOError"], [t |-> "YAMLError"]}

\* a path that names a directory cannot be read
LoadFiles ==
    {[path |-> <<"d", "/">>, content |-> [t |-> "IOError"]]}
        \cup {[path |-> path, content |-> content] :
                  path \in {<<"e">>, <<"d", "/", "e">>},
                  content \in Failures \cup Scalars \cup Mappings}

InitLoaded ==
    /\ heap = <<>>
    /\ fs \in LoadFiles
    /\ ret = NoReturn

NextLoaded == Load

SpecLoaded == InitLoaded /\ [][NextLoaded]_vars

\* the environment.yml files the known specs are compared with: named x by
\* their name field or y by their path, unreadable, or empty
SyncFiles ==
    {[path |-> <<"y">>, content |-> content] :
         content \in {[t |-> "IOError"], None}
             \cup {[t |-> "dict", name |-> name, prefix |-> Absent,
                    dependencies |-> dependencies, channels |-> chans] :
                       name \in {Absent, Str(<<"x">>)},
                       dependencies \in {Absent}
                           \cup {List(xs) : xs \in {<<>>, <<Str(<<"a">>)>>, <<Str(<<"b">>)>>,
                                                    <<Str(<<"a">>), Str(<<"b">>)>>,
                                                    <<Str(<<"b">>), Str(<<"a">>)>>}},
                       chans \in {Absent, List(<<Str(<<"c">>)>>)}}}

InitSynced ==
    /\ heap = <<>>
    /\ fs \in SyncFiles
    /\ ret = NoReturn

\* the specs the project knows: named x or y, roots or children
ConstructSynced ==
    /\ Len(heap) < MaxPeers
    /\ \E name \in Names,
          link \in {<<None, 0>>} \cup {<<heap[j]._name, j>> : j \in 1..Len(heap)},
          conda \in SeqsUpTo(Packages, Room) :
         Construct(name, conda, <<>>, <<>>, None, link[1], link[2])

NextSynced ==
    \/ ConstructSynced
    \/ FindOutOfSync

SpecSynced == InitSynced /\ [][NextSynced]_vars


(***************************************************************************)
(* The effective lists, stated from the root of the inheritance chain down.*)
(***************************************************************************)
RECURSIVE AncestorChain(_, _)
\* the objects on the inherit_from chain that ends at i, the root first
AncestorChain(h, i) ==
    IF h[i]._inherit_from = 0 THEN <<i>>
    ELSE Append(AncestorChain(h, h[i]._inherit_from), i)

RECURSIVE Without(_, _)
\* base with every element that occurs in own removed
Without(base, own) ==
    IF base = <<>> THEN <<>>
    ELSE (IF \E k \in 1..Len(own) : own[k] = Head(base) THEN <<>> ELSE <<Head(base)>>)
             \o Without(Tail(base), own)

RECURSIVE RootFirst(_, _, _, _)
\* the combine rule applied along the first n objects of chain
RootFirst(h, chain, n, attr) ==
    IF n = 1 THEN Own(h[chain[1]], attr)
    ELSE LET own == Own(h[chain[n]], attr)
         IN  Without(RootFirst(h, chain, n - 1, attr), own) \o own

Effective(h, i, attr) ==
    LET chain == AncestorChain(h, i) IN RootFirst(h, chain, Len(chain), attr)

Count(x, xs) == Cardinality({k \in 1..Len(xs) : xs[k] = x})

Shared(h, i, attr) ==
    Range(Own(h[i], attr)) \cap Range(Own(h[h[i]._inherit_from], attr))

Linked(h, i) ==
    h[i]._inherit_from = 0 \/
        (/\ h[i]._inherit_from \in 1..Len(h)
         /\ h[i]._inherit_from_name # None
         /\ h[i]._inherit_from_name = h[h[i]._inherit_from]._name)

\* a step that is a call of the constructor
ConstructStep == ret'.op = "__init__" /\ <<heap, ret>>' # <<heap, ret>>

C10_Step ==
    /\ Len(heap') >= Len(heap)
    /\ \A i \in 1..Len(heap) :
           /\ heap'[i]._name = heap[i]._name
           /\ heap'[i]._inherit_from = heap[i]._inherit_from
           /\ heap'[i]._inherit_from_name = heap[i]._inherit_from_name
    /\ ConstructStep =>
           IF ret'.value.t = "raise"
           THEN /\ heap' = heap
                /\ ret'.value.inherit_from # 0
                /\ \/ ret'.value.inherit_from_name = None
                   \/ ret'.value.inherit_from_name
                          # heap[ret'.value.inherit_from]._name
           ELSE /\ Len(heap') = Len(heap) + 1
                /\ ret'.self = Len(heap')

\* C10: every object has inherit_from unset, or inherit_from_name set and
\* equal to the name of the object inherit_from; a construction with a
\* parent object and no or another inherit_from_name fails and adds no
\* object, every other construction (also one with only inherit_from_name)
\* adds one; the name and the link of an object never change afterwards.
C10_InheritLink ==
    /\ [](\A i \in 1..Len(heap) : Linked(heap, i))
    /\ [][C10_Step]_vars

\* a linked object and one that holds only a parent's name are there, and
\* the constructor has just refused a parent object whose name is not the
\* inherit_from_name given
C10_Witness ==
    /\ \E i \in 1..Len(heap) : heap[i]._inherit_from # 0
    /\ \E i \in 1..Len(heap) :
           heap[i]._inherit_from = 0 /\ heap[i]._inherit_from_name # None
    /\ ret.op = "__init__"
    /\ ret.value.t = "raise"
    /\ ret.value.inherit_from_name # None

\* the dict to_json would return from the own lists alone
OwnJson(h, i) ==
    LET conda == h[i]._conda_packages
        pip == h[i]._pip_packages
    IN  [packages |-> [k \in 1..Len(conda) |-> Str(conda[k])]
                          \o (IF pip # <<>> THEN <<[t |-> "dict", pip |-> pip]>> ELSE <<>>),
         channels |-> h[i]._channels,
         inherit_from |-> IF h[i]._inherit_from_name # None
                          THEN h[i]._inherit_from_name ELSE Absent]

\* C1: to_json returns the own conda packages (then one {pip: own pip
\* packages} entry when there are own pip packages) and the own channels,
\* nothing an ancestor declares, and 'inherit_from' holds the parent's name
\* exactly when inherit_from_name is set.
C1_ToJsonOwnOnly ==
    ret.op = "to_json" => ret.value = OwnJson(heap, ret.self)

(***************************************************************************)
(* The content hash.                                                       *)
(***************************************************************************)
\* the bytes of the effective conda packages, then of the effective pip
\* packages, then of the effective channels, with nothing between them
HashedBytes(h, i) ==
    Flatten(Effective(h, i, "conda_packages")) \o Flatten(Effective(h, i, "pip_packages"))
        \o Flatten(Effective(h, i, "channels"))

C5_Step ==
    /\ \A i \in 1..Len(heap) :
           heap[i]._channels_and_packages_hash # None =>
               heap'[i]._channels_and_packages_hash = heap[i]._channels_and_packages_hash
    /\ (/\ ret.op = "channels_and_packages_hash"
        /\ ret'.op = "channels_and_packages_hash"
        /\ ret'.self = ret.self) => ret'.value = ret.value

Unchanged(xs) == [k \in 1..Len(xs) |-> <<" ", " ">> \o xs[k]]

\* a section: nothing for an empty list, else the header and the indented lines
Section(header, xs) ==
    IF xs = <<>> THEN <<>>
    ELSE <<header>> \o [k \in 1..Len(xs) |-> <<" ", " ", " ", " ", " ", " ">> \o xs[k]]

Loaded == ret.op = "_load_environment_yml"
Parsed == fs.content.t \notin {"IOError", "YAMLError"}

\* C7: _load_environment_yml raises nothing; a file that cannot be read or
\* parsed gives None, and every file that parses gives an EnvSpec, whatever
\* is missing from it or of a wrong type in it.
C7_NeverRaises ==
    Loaded =>
        /\ ret.value.t # "raise"
        /\ ~Parsed => ret.value = None
        /\ Parsed => ret.value.t = "EnvSpec"

\* the name C8 states: the 'name' field when present, else the base name of
\* a present, non-empty 'prefix', else the base name of the path
StatedName(file) ==
    LET yaml == file.content
    IN  IF yaml.name # Absent THEN yaml.name
        ELSE IF yaml.prefix # Absent /\ yaml.prefix # Str(<<>>)
        THEN Str(basename(yaml.prefix.v))
        ELSE Str(basename(file.path))

\* C8 as stated, of the EnvSpec objects that are returned: the name is the
\* stated one, and it is not empty.
C8_NameWhenPresent ==
    (Loaded /\ ret.value.t = "EnvSpec") =>
        /\ ret.value.obj._name = StatedName(fs)
        /\ ret.value.obj._name # Str(<<>>)

\* a value Python takes for false: None, '', 0, []
Falsy(node) == node \in {None, Str(<<>>), Num(0), List(<<>>)}

\* the 'name' field is there and counts as true
HasName(yaml) == yaml.name # Absent /\ ~Falsy(yaml.name)
\* the 'prefix' field is there and counts as true
HasPrefix(yaml) == yaml.prefix # Absent /\ ~Falsy(yaml.prefix)

\* C8 as amended: an EnvSpec that is returned is named by the 'name' field
\* when that is present and not empty (true for Python); otherwise by the
\* base name of 'prefix' when that is present, not empty and its base name
\* is not empty; otherwise by the base name of the path. The name is never
\* empty. No EnvSpec is returned, the call raising instead, exactly when
\* the 'prefix' that has to be asked is not empty and no string.
C8_NameFallback ==
    (Loaded /\ Parsed /\ fs.content.t = "dict") =>
        LET yaml == fs.content
            asked == ~HasName(yaml) /\ HasPrefix(yaml)
        IN  /\ ret.value.t = "raise" <=> (asked /\ yaml.prefix.t # "str")
            /\ ret.value.t # "raise" =>
                   /\ ret.value.t = "EnvSpec"
                   /\ ret.value.obj._name # Str(<<>>)
                   /\ ret.value.obj._name # None
                   /\ ret.value.obj._name =
                          IF HasName(yaml) THEN yaml.name
                          ELSE IF asked /\ basename(yaml.prefix.v) # <<>>
                          THEN Str(basename(yaml.prefix.v))
                          ELSE Str(basename(fs.path))

\* a file with an empty 'name' and a 'prefix' that ends in a separator has
\* been loaded, and the object is named after the file
C8_Witness ==
    /\ Loaded
    /\ fs.content.t = "dict"
    /\ fs.content.name = Str(<<>>)
    /\ fs.content.prefix = Str(<<"y", "/">>)
    /\ fs.path = <<"d", "/", "e">>
    /\ ret.value.t = "EnvSpec"
    /\ ret.value.obj._name = Str(<<"e">>)

\* the entries of the list node under a key; none when it is no list
EntriesOf(node) == IF node # Absent /\ node.t = "list" THEN node.v ELSE <<>>

\* the strings among the entries xs, in their order
StringsOf(xs) ==
    LET strings == SelectSeq(xs, LAMBDA x : x.t = "str")
    IN  [k \in 1..Len(strings) |-> strings[k].v]

\* a mapping with a 'pip' key whose value is a sequence
PipMapping(x) == x.t = "dict" /\ x.pip # Absent /\ x.pip.t = "list"

\* C9: an EnvSpec that is returned holds as conda packages the string
\* entries of 'dependencies' in file order, as pip packages the string
\* elements of every {pip: sequence} entry of 'dependencies' concatenated in
\* file order, as channels the string entries of 'channels'; every other
\* entry is skipped; it has no inheritance link, and its effective lists are
\* these own lists.
C9_LoadedLists ==
    (Loaded /\ ret.value.t = "EnvSpec") =>
        LET deps == EntriesOf(fs.content.dependencies)
            obj == ret.value.obj
        IN  /\ obj._conda_packages = StringsOf(deps)
            /\ obj._pip_packages =
                   Flatten([k \in 1..Len(deps) |->
                               IF PipMapping(deps[k]) THEN StringsOf(deps[k].pip.v)
                               ELSE <<>>])
            /\ obj._channels = StringsOf(EntriesOf(fs.content.channels))
            /\ obj._inherit_from = 0
            /\ obj._inherit_from_name = None
            /\ \A attr \in Attrs : _get_inherited(<<obj>>, 1, attr) = Own(obj, attr)

\* a file with two {pip: sequence} entries, one of them holding a number
\* beside a string, and a channel that is no string, has been loaded
C9_Witness ==
    /\ Loaded
    /\ ret.value.t = "EnvSpec"
    /\ fs.content.dependencies =
           List(<<[t |-> "dict", pip |-> List(<<Str(<<"b">>)>>)],
                  [t |-> "dict", pip |-> List(<<Num(1), Str(<<"a">>)>>)]>>)
    /\ fs.content.channels = List(<<Num(1), Str(<<"c">>)>>)
    /\ ret.value.obj._pip_packages = <<<<"b">>, <<"a">>>>
    /\ ret.value.obj._channels = <<<<"c">>>>
(***************************************************************************)
(* The sync checker.                                                       *)
(***************************************************************************)
Found == ret.op = "_find_out_of_sync_environment_yml_spec"

\* the known spec k has the name of the loaded spec and lists that hash alike
InSync(h, k, spec) ==
    /\ h[k]._name = spec._name
    /\ HashedBytes(h, k) = HashedBytes(<<spec>>, 1)

SyncStep ==
    /\ Len(heap') >= Len(heap)
    /\ ret'.op = "_find_out_of_sync_environment_yml_spec" => Len(heap') = Len(heap)
    /\ \A i \in 1..Len(heap) :
         /\ heap'[i]._name = heap[i]._name
         /\ \A attr \in Attrs : Own(heap'[i], attr) = Own(heap[i], attr)
         /\ heap'[i]._inherit_from = heap[i]._inherit_from
         /\ heap'[i]._inherit_from_name = heap[i]._inherit_from_name

C4_WitnessOutOfSync ==
    /\ Found
    /\ ret.value.t = "EnvSpec"
    /\ \E k \in 1..Len(heap) : heap[k]._name = ret.value.obj._name
    /\ ret.value.obj._channels_and_packages_hash # None
====
